---- MODULE Spec2Model ----
(***************************************************************************)
(* Model of the element interaction layer of insider_automation_project:   *)
(* the retry decorator (utils/retry_decorator.py) and the BasePage         *)
(* operations built on it and on Selenium's WebDriverWait                  *)
(* (pages/base_page.py).                                                   *)
(*                                                                         *)
(* Time is counted in poll intervals of WebDriverWait (0.5 s).  The        *)
(* browser is an environment: the DOM node behind the locator may be       *)
(* attached, removed, replaced, shown, hidden, enabled and disabled        *)
(* between any two steps of the program, and every driver command may      *)
(* fail with a generic WebDriverException.                                 *)
(***************************************************************************)
EXTENDS Integers, Sequences, FiniteSets, TLC

\* ---------------------------------------------------------------- bounds
\* Largest attempt budget handed to retry(max_attempts=N) by a direct caller.
MaxBudget == 2
\* Number of DOM nodes the browser creates behind one locator during a call.
MaxGen == 3
\* settings.EXPLICIT_WAIT, in poll intervals (environment-configured).
EXPLICIT_WAIT == 2
\* settings.IMPLICIT_WAIT, in poll intervals (environment-configured).
IMPLICIT_WAIT == 1
\* Largest timeout override passed by a caller, in poll intervals.
MaxTimeout == 1
\* Number of test functions run one after the other with the driver fixture.
MaxTests == 2
\* Position cards on the open positions page.
MaxCards == 2

\* ------------------------------------------------------------- constants
\* settings.MAX_RETRIES default.
MAX_RETRIES == 3
\* settings.RETRY_DELAY default (seconds; recorded, not ticked).
RETRY_DELAY == 2

VARIABLES
    implicit_wait,    \* driver: implicit wait in force (driver.implicitly_wait)
    timeout,          \* BasePage.timeout (also the timeout of BasePage.wait)
    dom,              \* browser: the node behind the locator
    op,               \* facade operation in progress ("idle" when none)
    pc,               \* position inside the operation
    deco,             \* closure of the retry decorator in use
    attempt,          \* wrapper: loop variable
    last_exception,   \* wrapper: local last_exception
    history,          \* outcome of every invocation of the wrapped function
    log,              \* logger.warning / logger.error records
    slept,            \* time.sleep(delay) calls made by the wrapper
    wait,             \* WebDriverWait.until in progress
    element,          \* handle held by the running body (0: none)
    actions,          \* driver actions issued on handles during the call
    opts,             \* arguments of the facade call
    first_present,    \* elapsed time at which the node was first present (-1: never)
    result,           \* outcome delivered to the caller
    fx,               \* driver fixture / get_driver: position, inputs, locals
    drivers,          \* every WebDriver instance created, with its quit() calls
    frames,           \* wrapper calls of two sessions running at the same time
    nav,              \* HomePage.go_to_careers: position, steps made, outcome
    listing           \* OpenPositionsPage.get_listings: cards, loop, entries

vars == <<implicit_wait, timeout, dom, op, pc, deco, attempt, last_exception,
          history, log, slept, wait, element, actions, opts, first_present,
          result, fx, drivers, frames, nav, listing>>

\* ------------------------------------------------------ exception classes
Stale       == "StaleElementReferenceException"
Intercepted == "ElementClickInterceptedException"
Timeout     == "TimeoutException"
NoSuch      == "NoSuchElementException"
WebDriverEx == "WebDriverException"
AssertionEx == "AssertionError"
TypeErr     == "TypeError"
AnyEx       == "Exception"

SeleniumKinds == {Stale, Intercepted, Timeout, NoSuch, WebDriverEx}

\* Python's isinstance: the classes an exception of this kind is an instance of.
Ancestors(kind) ==
    IF kind \in SeleniumKinds THEN {kind, WebDriverEx, AnyEx} ELSE {kind, AnyEx}

\* What the message of an exception names, out of "predicate", "timeout" and
\* "budget".  until(method) is called with the condition alone, so its
\* TimeoutException has the default message "" ; the errors the driver
\* reports describe the browser's state, and the wrapper re-raises the
\* exception object it caught.
UntilMessage == {}
DriverMessage == {}

None == [kind |-> "None", inv |-> 0, context |-> {}]
Exc(kind, inv) ==
    [kind |-> kind, inv |-> inv,
     context |-> IF kind = Timeout THEN UntilMessage ELSE DriverMessage]

\* `except exceptions as e`: does the except clause of the wrapper catch e?
CatchesAll(e, exceptions) == TRUE
Catches(e, exceptions) == Ancestors(e.kind) \cap exceptions # {}

\* `for attempt in range(max_attempts + 1)`
RangeShort(max_attempts) == 0 .. (max_attempts - 1)
RangeLong(max_attempts) == 0 .. (max_attempts + 1)
AttemptRange(max_attempts) == 0 .. max_attempts

\* `last_exception = e`
KeepFirst(prev, e) == IF prev = None THEN e ELSE prev
Remember(prev, e) == e

\* `if attempt < max_attempts:` another try follows
AlwaysRetry(att, max_attempts) == TRUE
RetryFollows(att, max_attempts) == att < max_attempts

\* Decorator arguments of the wrapped facade methods.
ClickExceptions == {Intercepted, Stale}
TypeExceptionsWithTimeout == {Stale, Timeout}
TypeExceptions == {Stale}
FindExceptions == {Stale}

\* retry(max_attempts=None, delay=None, exceptions=(Exception,)) applied to func
Retry(func, max_attempts, exceptions) ==
    [exceptions |-> exceptions, max_attempts |-> max_attempts, func |-> func, delay |-> RETRY_DELAY]

NoDeco == [exceptions |-> {}, max_attempts |-> 0, func |-> "none", delay |-> 0]
NoWait == [timeout |-> 0, elapsed |-> 0, pred |-> "none", queried |-> 0]
NoOpts == [timeout |-> -1, clear_first |-> FALSE]
NoResult == [exc |-> None, status |-> "none", value |-> 0]
Returned(v) == [exc |-> None, status |-> "ok", value |-> v]
Raised(e) == [exc |-> e, status |-> "raised", value |-> 0]

\* ------------------------------------------------------------------ DOM
NoNode == [displayed |-> FALSE, enabled |-> FALSE, node |-> 0, present |-> FALSE]
IsStale(h) == ~dom.present \/ dom.node # h

\* A node as the browser creates it: rendered or not, enabled or not.
Nodes(n) == {[displayed |-> d, enabled |-> e, node |-> n, present |-> TRUE] :
             d \in BOOLEAN, e \in BOOLEAN}

\* `timeout or self.timeout`, `timeout or settings.EXPLICIT_WAIT`
\* (-1 stands for None; None and 0 are both falsy).
OverrideIfGiven(t, default) == IF t = -1 THEN default ELSE t
OrDefault(t, default) == IF t = -1 \/ t = 0 THEN default ELSE t

\* Timeout arguments a caller passes: None or a number of poll intervals.
TimeoutArgs == {-1} \cup (0 .. MaxTimeout)

\* A wrapper call that has not started: no exception caught, nothing run.
NoFailure == [exc |-> None, session |-> 0]
NoFrame ==
    [pc |-> "idle", attempt |-> 0, last_exception |-> NoFailure, result |-> NoResult, exceptions |-> {}, max_attempts |-> 0, invocations |-> 0, failures |-> 0, last_outcome |-> "none"]

\* get_listings before the call: no cards located, `listings` not created.
NoListing ==
    [pc |-> "idle", result |-> NoResult, located |-> FALSE, cards |-> <<>>,
     card |-> 0, fields |-> <<>>, listings |-> <<>>, lookups |-> <<>>]

\* go_to_careers before it is called.
NoNav == [pc |-> "idle", result |-> NoResult, steps |-> <<>>]

\* The driver fixture before a test has asked for it.
NoFixture ==
    [pc |-> "idle", option |-> "", setting |-> "chrome", hub |-> FALSE,
     screenshot_on_failure |-> FALSE, browser |-> "", calls |-> 0,
     created |-> 0, rep_setup |-> "none", rep_call |-> "none", shots |-> "none",
     error |-> "none", tests |-> 0]

\* --------------------------------------------------------------- Init
\* get_driver: the local paths apply settings.IMPLICIT_WAIT, the Selenium
\* hub path returns the remote driver as created.  BasePage.__init__ then
\* fixes the default timeout.
Init ==
    /\ \E hub \in BOOLEAN : implicit_wait = IF hub THEN 0 ELSE IMPLICIT_WAIT
    /\ \E t \in TimeoutArgs : timeout = OrDefault(t, EXPLICIT_WAIT)
    /\ dom \in {NoNode} \cup Nodes(1)
    /\ op = "idle"
    /\ pc = "idle"
    /\ deco = NoDeco
    /\ attempt = 0
    /\ last_exception = None
    /\ history = <<>>
    /\ log = <<>>
    /\ slept = <<>>
    /\ wait = NoWait
    /\ element = 0
    /\ actions = <<>>
    /\ opts = NoOpts
    /\ first_present = -1
    /\ result = NoResult
    /\ fx = NoFixture
    /\ drivers = <<>>
    /\ frames = [s \in {1, 2} |-> NoFrame]
    /\ nav = NoNav
    /\ listing = NoListing

driverVars == <<implicit_wait, fx, drivers, frames, nav, listing>>
sessionVars == <<driverVars, timeout>>

\* ----------------------------------------------- propagation of failures
\* An exception that leaves the wrapper (or an unwrapped body) reaches the
\* frame of the operation: exists turns TimeoutException into False
\* (base_page.py:197), HomePage.accept_cookies_if_present passes over every
\* Exception (home_page.py:63), every other frame lets it go to the caller.
SwallowsTimeoutEverywhere(e) ==
    IF Timeout \in Ancestors(e.kind) THEN Returned(FALSE) ELSE Raised(e)
OutcomeOfRaise(e) ==
    IF op = "exists" /\ Timeout \in Ancestors(e.kind)
    THEN Returned(FALSE)
    ELSE IF op = "accept_cookies_if_present" /\ AnyEx \in Ancestors(e.kind)
    THEN Returned(0)
    ELSE Raised(e)

WarningRecordZeroBased(e) ==
    [attempt |-> attempt, exc |-> e, level |-> "warning", src |-> "retry"]
WarningRecord(e) ==
    [attempt |-> attempt + 1, exc |-> e, level |-> "warning", src |-> "retry"]
ErrorRecord ==
    [attempt |-> deco.max_attempts + 1, exc |-> None, level |-> "error", src |-> "retry"]

\* The wrapped function raised e during the current attempt
\* (retry_decorator.py:82-97, or propagation when the clause does not match).
BodyRaises(e) ==
    /\ history' = Append(history, [inv |-> Len(history) + 1, outcome |-> e.kind])
    /\ wait' = NoWait
    /\ element' = 0
    /\ IF Catches(e, deco.exceptions)
       THEN /\ last_exception' = Remember(last_exception, e)
            /\ IF RetryFollows(attempt, deco.max_attempts)
               THEN /\ log' = Append(log, WarningRecord(e))
                    /\ slept' = Append(slept, deco.delay)
               ELSE /\ log' = Append(log, ErrorRecord)
                    /\ slept' = slept
            /\ attempt' = attempt + 1
            /\ pc' = "loop"
            /\ result' = result
       ELSE /\ pc' = "done"
            /\ result' = OutcomeOfRaise(e)
            /\ UNCHANGED <<last_exception, log, slept, attempt>>

\* What the wrapper hands to its caller when func returned v:
\* `return func(*args, **kwargs)`.
ReturnNothing(v) == 0
ReturnValue(v) == v

\* The wrapped function returned v: `return func(*args, **kwargs)`.
\* A facade method that called self.find goes on with the handle.
BodyReturns(v) ==
    /\ history' = Append(history, [inv |-> Len(history) + 1, outcome |-> "ok"])
    /\ wait' = NoWait
    /\ UNCHANGED <<last_exception, log, slept, attempt>>
    /\ IF op = deco.func
       THEN /\ pc' = "done"
            /\ result' = Returned(ReturnValue(v))
            /\ element' = 0
       ELSE /\ pc' = "act"
            /\ result' = result
            /\ element' = ReturnValue(v)

\* An exception raised outside any wrapped body.
PropagateIntoWrapper(e) == BodyRaises(e)
Propagate(e) ==
    /\ pc' = "done"
    /\ result' = OutcomeOfRaise(e)
    /\ wait' = NoWait
    /\ element' = 0
    /\ UNCHANGED <<last_exception, log, slept, attempt, history>>

\* Invocation number of the body that is running.
Inv == Len(history) + 1

\* ------------------------------------------------------ retry decorator
StartWait(pred, t) == [timeout |-> t, elapsed |-> 0, pred |-> pred, queried |-> 0]

\* Readiness predicate each wrapped facade method waits on.
AttachedOnly(func) == "presence"
PredicateOf(func) ==
    CASE func = "click" -> "clickable"
      [] func = "type"  -> "visible"
      [] func = "find"  -> "presence"
      [] OTHER          -> "none"

\* Entry of wrapper(*args, **kwargs): `last_exception = None`, first loop test.
EnterWrapper(o, d, a) ==
    /\ pc = "idle"
    /\ op' = o
    /\ deco' = d
    /\ opts' = a
    /\ pc' = "loop"
    /\ attempt' = 0
    /\ last_exception' = None
    /\ UNCHANGED <<sessionVars, dom, history, log, slept, wait, element,
                   actions, first_present, result>>

\* A function decorated by a direct user of retry(max_attempts=N, exceptions=X).
\* Budgets a direct user passes: int(os.getenv("MAX_RETRIES")) or an argument,
\* neither of which is checked for sign.
Budgets == -1 .. MaxBudget
\* `exceptions: Tuple[Type[Exception], ...] = (Exception,)`: the set in use
\* when the caller of retry() gives none.
DefaultSeleniumOnly == {WebDriverEx}
DefaultExceptions == {AnyEx}
ExceptionSets == {DefaultExceptions, {Stale}, {Stale, Intercepted}}
FailureKinds == {Stale, Intercepted, Timeout, AssertionEx}

CallOperation ==
    \E n \in Budgets, x \in ExceptionSets :
        EnterWrapper("op", Retry("op", n, x), NoOpts)

\* Loop head, attempt in range: `return func(*args, **kwargs)` is started.
WrapperInvoke ==
    /\ pc = "loop"
    /\ attempt \in AttemptRange(deco.max_attempts)
    /\ IF deco.func = "op"
       THEN /\ pc' = "body"
            /\ UNCHANGED <<wait, first_present>>
       ELSE /\ pc' = "wait"
            /\ wait' = StartWait(PredicateOf(deco.func), timeout)
            /\ first_present' = IF dom.present THEN 0 ELSE -1
    /\ UNCHANGED <<sessionVars, dom, op, deco, attempt, last_exception, history,
                   log, slept, element, actions, opts, result>>

\* Loop exhausted: `raise last_exception` (None raises TypeError in Python).
WrapperRaise ==
    /\ pc = "loop"
    /\ attempt \notin AttemptRange(deco.max_attempts)
    /\ pc' = "done"
    /\ result' = OutcomeOfRaise(IF last_exception = None
                                THEN Exc(TypeErr, 0) ELSE last_exception)
    /\ UNCHANGED <<sessionVars, dom, op, deco, attempt, last_exception, history,
                   log, slept, wait, element, actions, opts, first_present>>

\* One invocation of the directly decorated function: it returns a value or
\* raises a failure of some kind.
OperationRuns ==
    /\ pc = "body"
    /\ deco.func = "op"
    /\ \/ BodyReturns(Inv)
       \/ \E k \in FailureKinds : BodyRaises(Exc(k, Inv))
    /\ UNCHANGED <<sessionVars, dom, op, deco, actions, opts, first_present>>

\* ----------------------------------------------------- facade entries
\* @retry(exceptions=(ElementClickInterceptedException,
\*                    StaleElementReferenceException)) def click
Click ==
    EnterWrapper("click", Retry("click", MAX_RETRIES, ClickExceptions), NoOpts)

\* @retry(exceptions=(StaleElementReferenceException,)) def type
Type ==
    \E c \in BOOLEAN :
        EnterWrapper("type", Retry("type", MAX_RETRIES, TypeExceptions),
                     [timeout |-> -1, clear_first |-> c])

\* @retry(exceptions=(StaleElementReferenceException,)) def find
Find ==
    EnterWrapper("find", Retry("find", MAX_RETRIES, FindExceptions), NoOpts)

\* get_text: `element = self.find(by, locator)` then `element.text`
GetText ==
    EnterWrapper("get_text", Retry("find", MAX_RETRIES, FindExceptions), NoOpts)

\* get_attribute: `element = self.find(by, locator)` then get_attribute
GetAttribute ==
    EnterWrapper("get_attribute", Retry("find", MAX_RETRIES, FindExceptions),
                 NoOpts)

\* Operations of the page objects built on the facade (HomePage,
\* OpenPositionsPage); the other operations are BasePage methods.
PageObjectOps == {"accept_cookies_if_present"}

\* HomePage.accept_cookies_if_present: `self.click(*self.ACCEPT_COOKIES_BTN)`
\* inside try / `except Exception: pass`.
AcceptCookiesIfPresent ==
    EnterWrapper("accept_cookies_if_present",
                 Retry("click", MAX_RETRIES, ClickExceptions), NoOpts)

\* click_with_js: `element = self.find(by, locator)` then
\* execute_script("arguments[0].click();", element)
ClickWithJs ==
    EnterWrapper("click_with_js", Retry("find", MAX_RETRIES, FindExceptions),
                 NoOpts)

\* hover: `element = self.find(by, locator)` then
\* ActionChains(self.driver).move_to_element(element).perform()
Hover ==
    EnterWrapper("hover", Retry("find", MAX_RETRIES, FindExceptions), NoOpts)

\* scroll_to_element: `element = self.find(by, locator)` then
\* execute_script("arguments[0].scrollIntoView(true);", element)
ScrollToElement ==
    EnterWrapper("scroll_to_element", Retry("find", MAX_RETRIES, FindExceptions),
                 NoOpts)

\* wait_for_element_visible / wait_for_element_clickable:
\* `wait_time = timeout or self.timeout`, a temporary WebDriverWait, and
\* `return temp_wait.until(...)` with no handler around it.
WaitForOps == {"wait_for_element_visible", "wait_for_element_clickable"}

\* self.timeout (and self.wait) once a call with timeout argument t has set
\* up its wait: `wait_time` and `temp_wait` are locals, the attributes of
\* the page object are not assigned.
OverrideSticks(t) == OrDefault(t, timeout)
PageTimeoutAfter(t) == timeout

StartTempWait(o, pred) ==
    /\ pc = "idle"
    /\ \E t \in TimeoutArgs :
        /\ opts' = [timeout |-> t, clear_first |-> FALSE]
        /\ wait' = StartWait(pred, OrDefault(t, timeout))
        /\ timeout' = PageTimeoutAfter(t)
    /\ op' = o
    /\ pc' = IF pred = "ready" THEN "ready" ELSE "wait"
    /\ first_present' = IF dom.present THEN 0 ELSE -1
    /\ UNCHANGED <<driverVars, dom, deco, attempt, last_exception, history,
                   log, slept, element, actions, result>>

WaitForElementVisible == StartTempWait("wait_for_element_visible", "visible")

WaitForElementClickable ==
    StartTempWait("wait_for_element_clickable", "clickable")

\* wait_for_page_load: `wait_time = timeout or self.timeout` and
\* WebDriverWait(self.driver, wait_time).until(lambda: readyState == "complete")
WaitForPageLoad == StartTempWait("wait_for_page_load", "ready")

\* exists: `wait_time = timeout or self.timeout`, a temporary WebDriverWait,
\* then until(presence_of_element_located) inside try/except TimeoutException.
Exists ==
    /\ pc = "idle"
    /\ \E t \in TimeoutArgs :
        /\ opts' = [timeout |-> t, clear_first |-> FALSE]
        /\ wait' = StartWait("presence", OrDefault(t, timeout))
        /\ timeout' = PageTimeoutAfter(t)
    /\ op' = "exists"
    /\ pc' = "wait"
    /\ first_present' = IF dom.present THEN 0 ELSE -1
    /\ UNCHANGED <<driverVars, dom, deco, attempt, last_exception, history,
                   log, slept, element, actions, result>>

\* finds: `return self.driver.find_elements(by, locator)`
Finds ==
    /\ pc = "idle"
    /\ op' = "finds"
    /\ pc' = "query"
    /\ wait' = StartWait("none", 0)
    /\ first_present' = IF dom.present THEN 0 ELSE -1
    /\ UNCHANGED <<sessionVars, dom, deco, attempt, last_exception, history,
                   log, slept, element, actions, opts, result>>

\* ---------------------------------------------------------- wait engine
\* WebDriverWait.until(method) as the facade uses it: evaluate the expected
\* condition, return its value if truthy, swallow NoSuchElementException,
\* sleep one poll interval, give up with TimeoutException once
\* time.monotonic() > end_time.

\* A failure raised inside until() leaves the wait: into the wrapper when the
\* wait belongs to a wrapped body, to the facade frame otherwise.
WaitRaises(e) ==
    IF deco.func = "none" THEN Propagate(e) ELSE BodyRaises(e)

\* until() returned the handle.
WaitReturns(h) ==
    CASE op = "exists" ->
            /\ pc' = "done"
            /\ result' = Returned(TRUE)
            /\ wait' = NoWait
            /\ element' = 0
            /\ UNCHANGED <<last_exception, log, slept, attempt, history>>
      [] op \in WaitForOps ->
            /\ pc' = "done"
            /\ result' = Returned(h)
            /\ wait' = NoWait
            /\ element' = 0
            /\ UNCHANGED <<last_exception, log, slept, attempt, history>>
      [] op = "wait_for_page_load" ->
            /\ pc' = "done"
            /\ result' = Returned(0)
            /\ wait' = NoWait
            /\ element' = 0
            /\ UNCHANGED <<last_exception, log, slept, attempt, history>>
      [] deco.func = "find" -> BodyReturns(h)
      [] OTHER ->
            /\ pc' = "native"
            /\ element' = h
            /\ wait' = NoWait
            /\ UNCHANGED <<last_exception, log, slept, attempt, history, result>>

\* driver.find_element finds the node.  presence_of_element_located returns
\* it at once; the other conditions go on to query the handle.
FindElementFound ==
    /\ pc = "wait"
    /\ dom.present
    /\ IF wait.pred = "presence"
       THEN WaitReturns(dom.node)
       ELSE /\ pc' = "check"
            /\ element' = dom.node
            /\ UNCHANGED <<wait, last_exception, log, slept, attempt, history,
                           result>>
    /\ UNCHANGED <<sessionVars, dom, op, deco, actions, opts, first_present>>

\* No node yet and the implicit wait has not run out: the driver keeps
\* looking, the command blocks.
FindElementBlocks ==
    /\ pc \in {"wait", "query"}
    /\ ~dom.present
    /\ wait.queried < implicit_wait
    /\ wait' = [wait EXCEPT !.queried = @ + 1, !.elapsed = @ + 1]
    /\ UNCHANGED <<sessionVars, dom, op, pc, deco, attempt, last_exception,
                   history, log, slept, element, actions, opts, first_present,
                   result>>

\* The implicit wait ran out: NoSuchElementException, which until() ignores.
FindElementNotFound ==
    /\ pc = "wait"
    /\ ~dom.present
    /\ wait.queried >= implicit_wait
    /\ pc' = "wait_sleep"
    /\ UNCHANGED <<sessionVars, dom, op, deco, attempt, last_exception, history,
                   log, slept, wait, element, actions, opts, first_present,
                   result>>

\* Truth of the expected condition on a located, still valid handle:
\* visibility_of_element_located -> is_displayed();
\* element_to_be_clickable -> is_displayed() and is_enabled().
EnabledIsClickable(pred) ==
    CASE pred = "presence"  -> dom.present
      [] pred = "visible"   -> dom.present /\ dom.displayed
      [] pred = "clickable" -> dom.present /\ dom.enabled
      [] OTHER              -> FALSE
Satisfied(pred) ==
    CASE pred = "presence"  -> dom.present
      [] pred = "visible"   -> dom.present /\ dom.displayed
      [] pred = "clickable" -> dom.present /\ dom.displayed /\ dom.enabled
      [] OTHER              -> FALSE

\* The condition queries the handle it has just located.  A handle that went
\* stale meanwhile: visibility_of_element_located catches the
\* StaleElementReferenceException and answers False, element_to_be_clickable
\* lets it out of until().
ConditionChecks ==
    /\ pc = "check"
    /\ IF IsStale(element)
       THEN IF wait.pred = "visible"
            THEN /\ pc' = "wait_sleep"
                 /\ element' = 0
                 /\ UNCHANGED <<wait, last_exception, log, slept, attempt,
                                history, result>>
            ELSE WaitRaises(Exc(Stale, Inv))
       ELSE IF Satisfied(wait.pred)
            THEN WaitReturns(element)
            ELSE /\ pc' = "wait_sleep"
                 /\ element' = 0
                 /\ UNCHANGED <<wait, last_exception, log, slept, attempt,
                                history, result>>
    /\ UNCHANGED <<sessionVars, dom, op, deco, actions, opts, first_present>>

\* wait_for_page_load's condition: execute_script("return document.readyState")
\* answers "complete" or an earlier state of the document.
ReadyStateChecks ==
    /\ pc = "ready"
    /\ \E complete \in BOOLEAN :
        IF complete
        THEN WaitReturns(0)
        ELSE /\ pc' = "wait_sleep"
             /\ UNCHANGED <<wait, last_exception, log, slept, attempt, history,
                            element, result>>
    /\ UNCHANGED <<sessionVars, dom, op, deco, actions, opts, first_present>>

\* `time.sleep(self._poll)` (one time unit) then `if time.monotonic() > end_time: break`
\* and `raise TimeoutException(message, ...)`.
TimedOutEarly(w) == w.elapsed >= w.timeout
TimedOut(w) == w.elapsed > w.timeout

WaitSleeps ==
    /\ pc = "wait_sleep"
    /\ LET w == [wait EXCEPT !.elapsed = @ + 1, !.queried = 0]
       IN  IF TimedOut(w)
           THEN WaitRaises(Exc(Timeout, Inv))
           ELSE /\ pc' = IF wait.pred = "ready" THEN "ready" ELSE "wait"
                /\ wait' = w
                /\ UNCHANGED <<last_exception, log, slept, attempt, history,
                               element, result>>
    /\ UNCHANGED <<sessionVars, dom, op, deco, actions, opts, first_present>>

\* Any command sent to the driver during a wait may fail with a
\* WebDriverException (session lost, invalid selector, ...), which until()
\* does not ignore.
WaitCommandFails ==
    /\ pc \in {"wait", "check", "ready"}
    /\ WaitRaises(Exc(WebDriverEx, Inv))
    /\ UNCHANGED <<sessionVars, dom, op, deco, actions, opts, first_present>>

\* ------------------------------------------------------ driver actions
\* What a command on handle h can answer: a stale handle is refused with
\* StaleElementReferenceException; on a valid one the command succeeds or
\* fails with one of the kinds the command can raise.
Answers(h, kinds) == IF IsStale(h) THEN {Stale} ELSE {"ok"} \cup kinds

Act(cmd, h, k) == [attempt |-> attempt, outcome |-> k, cmd |-> cmd, handle |-> h]

\* `except ElementClickInterceptedException:` around element.click()
FallbackHandlesAll(k) == TRUE
FallbackHandlesNone(k) == FALSE
FallbackHandles(k) == Intercepted \in Ancestors(k)

\* The record has no attempt number (0 stands for none).
FallbackRecord ==
    [attempt |-> 0, exc |-> None, level |-> "warning", src |-> "click"]

\* click: `element.click()`; an intercepted click is answered by the script
\* click of line 82, any other failure leaves the body.
NativeClick ==
    /\ pc = "native"
    /\ deco.func = "click"
    /\ \E k \in Answers(element, {Intercepted, WebDriverEx}) :
        /\ actions' = Append(actions, Act("click", element, k))
        /\ IF k = "ok"
           THEN BodyReturns(0)
           ELSE IF FallbackHandles(k)
                THEN /\ pc' = "script"
                     /\ log' = Append(log, FallbackRecord)
                     /\ UNCHANGED <<last_exception, slept, attempt, history,
                                    wait, element, result>>
                ELSE BodyRaises(Exc(k, Inv))
    /\ UNCHANGED <<sessionVars, dom, op, deco, opts, first_present>>

\* click: `self.driver.execute_script("arguments[0].click();", element)`
\* inside the except clause; whatever it raises leaves the body.
ScriptClick ==
    /\ pc = "script"
    /\ \E k \in Answers(element, {WebDriverEx}) :
        /\ actions' = Append(actions, Act("script_click", element, k))
        /\ IF k = "ok" THEN BodyReturns(0) ELSE BodyRaises(Exc(k, Inv))
    /\ UNCHANGED <<sessionVars, dom, op, deco, opts, first_present>>

\* type: the test `if clear_first:` made in every execution of the body.
ClearFirstAttemptOnly == opts.clear_first /\ attempt = 0
MustClear == opts.clear_first

\* type: `if clear_first: element.clear()`
TypeClear ==
    /\ pc = "native"
    /\ deco.func = "type"
    /\ MustClear
    /\ \E k \in Answers(element, {WebDriverEx}) :
        /\ actions' = Append(actions, Act("clear", element, k))
        /\ IF k = "ok"
           THEN /\ pc' = "send"
                /\ UNCHANGED <<last_exception, log, slept, attempt, history,
                               wait, element, result>>
           ELSE BodyRaises(Exc(k, Inv))
    /\ UNCHANGED <<sessionVars, dom, op, deco, opts, first_present>>

\* type: `element.send_keys(text)`
TypeSendKeys ==
    /\ deco.func = "type"
    /\ \/ pc = "send"
       \/ pc = "native" /\ ~MustClear
    /\ \E k \in Answers(element, {WebDriverEx}) :
        /\ actions' = Append(actions, Act("send_keys", element, k))
        /\ IF k = "ok" THEN BodyReturns(0) ELSE BodyRaises(Exc(k, Inv))
    /\ UNCHANGED <<sessionVars, dom, op, deco, opts, first_present>>

\* get_text / get_attribute: `return element.text`,
\* `return element.get_attribute(attribute)` on the handle find returned.
\* Neither method is decorated: a failure of the read goes to the caller.
ReadElement ==
    /\ pc = "act"
    /\ op \in {"get_text", "get_attribute"}
    /\ \E k \in Answers(element, {WebDriverEx}) :
        /\ actions' = Append(actions, Act(op, element, k))
        /\ IF k = "ok"
           THEN /\ pc' = "done"
                /\ result' = Returned(element)
                /\ element' = 0
                /\ UNCHANGED <<last_exception, log, slept, attempt, history, wait>>
           ELSE Propagate(Exc(k, 0))
    /\ UNCHANGED <<sessionVars, dom, op, deco, opts, first_present>>

\* hover: move_to_element(element).perform(); scroll_to_element:
\* execute_script(scrollIntoView) and a fixed time.sleep(0.5); click_with_js:
\* execute_script(click).  None of the methods is decorated or has a
\* handler: one action, its failure goes to the caller.
MoveOrScroll ==
    /\ pc = "act"
    /\ op \in {"hover", "scroll_to_element", "click_with_js"}
    /\ \E k \in Answers(element, {WebDriverEx}) :
        /\ actions' = Append(actions, Act(op, element, k))
        /\ IF k = "ok"
           THEN /\ pc' = "done"
                /\ result' = Returned(0)
                /\ element' = 0
                /\ UNCHANGED <<last_exception, log, slept, attempt, history, wait>>
           ELSE Propagate(Exc(k, 0))
    /\ UNCHANGED <<sessionVars, dom, op, deco, opts, first_present>>

\* accept_cookies_if_present: self.click returned, the method ends.
AcceptCookiesReturns ==
    /\ pc = "act"
    /\ op = "accept_cookies_if_present"
    /\ pc' = "done"
    /\ result' = Returned(0)
    /\ element' = 0
    /\ UNCHANGED <<sessionVars, dom, op, deco, attempt, last_exception, history,
                   log, slept, wait, actions, opts, first_present>>

\* finds: driver.find_elements answers with the nodes it found; with none,
\* it answers the empty list once the implicit wait has run out.
FindElementsReturns ==
    /\ pc = "query"
    /\ dom.present \/ wait.queried >= implicit_wait
    /\ pc' = "done"
    /\ result' = Returned(IF dom.present THEN <<dom.node>> ELSE <<>>)
    /\ UNCHANGED <<sessionVars, dom, op, deco, attempt, last_exception, history,
                   log, slept, wait, element, actions, opts, first_present>>

\* finds: the command itself fails; finds has no handler.
FindElementsFails ==
    /\ pc = "query"
    /\ pc' = "done"
    /\ result' = Raised(Exc(WebDriverEx, 0))
    /\ UNCHANGED <<sessionVars, dom, op, deco, attempt, last_exception, history,
                   log, slept, wait, element, actions, opts, first_present>>

\* ----------------------------------------------------------- browser
\* The page changes on its own while a facade call is running.
Running == pc \notin {"idle", "done"} /\ op # "op"

NotePresence ==
    first_present' = IF first_present = -1 /\ pc \in {"wait", "check", "wait_sleep", "query"}
                     THEN wait.elapsed ELSE first_present

DomAttach ==
    /\ Running
    /\ ~dom.present
    /\ dom.node < MaxGen
    /\ dom' \in Nodes(dom.node + 1)
    /\ NotePresence
    /\ UNCHANGED <<sessionVars, op, pc, deco, attempt, last_exception, history,
                   log, slept, wait, element, actions, opts, result>>

DomRemove ==
    /\ Running
    /\ dom.present
    /\ dom' = [NoNode EXCEPT !.node = dom.node]
    /\ UNCHANGED <<sessionVars, op, pc, deco, attempt, last_exception, history,
                   log, slept, wait, element, actions, opts, first_present,
                   result>>

\* The node is replaced by a new one matching the same locator.
DomReplace ==
    /\ Running
    /\ dom.present
    /\ dom.node < MaxGen
    /\ dom' \in Nodes(dom.node + 1)
    /\ UNCHANGED <<sessionVars, op, pc, deco, attempt, last_exception, history,
                   log, slept, wait, element, actions, opts, first_present,
                   result>>

\* The node is shown, hidden, enabled or disabled.
DomRestyle ==
    /\ Running
    /\ dom.present
    /\ dom' \in Nodes(dom.node) \ {dom}
    /\ UNCHANGED <<sessionVars, op, pc, deco, attempt, last_exception, history,
                   log, slept, wait, element, actions, opts, first_present,
                   result>>

\* The caller has the outcome; the next facade call starts from a clean frame.
\* Handles are never kept across calls, so node numbers restart; the page is
\* in whatever state the browser has brought it to by the next call.
Return ==
    /\ pc = "done"
    /\ op' = "idle"
    /\ pc' = "idle"
    /\ deco' = NoDeco
    /\ attempt' = 0
    /\ last_exception' = None
    /\ history' = <<>>
    /\ log' = <<>>
    /\ slept' = <<>>
    /\ wait' = NoWait
    /\ element' = 0
    /\ actions' = <<>>
    /\ opts' = NoOpts
    /\ first_present' = -1
    /\ result' = NoResult
    /\ dom' \in {NoNode} \cup Nodes(1)
    /\ UNCHANGED sessionVars

Next ==
    \/ CallOperation
    \/ WrapperInvoke
    \/ WrapperRaise
    \/ OperationRuns
    \/ Click
    \/ Type
    \/ Find
    \/ GetText
    \/ GetAttribute
    \/ AcceptCookiesIfPresent
    \/ ClickWithJs
    \/ Hover
    \/ ScrollToElement
    \/ WaitForElementVisible
    \/ WaitForElementClickable
    \/ WaitForPageLoad
    \/ Exists
    \/ Finds
    \/ FindElementFound
    \/ FindElementBlocks
    \/ FindElementNotFound
    \/ ConditionChecks
    \/ ReadyStateChecks
    \/ WaitSleeps
    \/ WaitCommandFails
    \/ NativeClick
    \/ ScriptClick
    \/ TypeClear
    \/ TypeSendKeys
    \/ ReadElement
    \/ MoveOrScroll
    \/ AcceptCookiesReturns
    \/ FindElementsReturns
    \/ FindElementsFails
    \/ DomAttach
    \/ DomRemove
    \/ DomReplace
    \/ DomRestyle
    \/ Return

Spec == Init /\ [][Next]_vars

\* ------------------------------------------------- session lifecycle
\* conftest.driver (a function-scoped generator fixture) and
\* driver_factory.get_driver, one test function after the other.
facadeVars == <<timeout, dom, op, pc, deco, attempt, last_exception, history,
                log, slept, wait, element, actions, opts, first_present,
                result, frames, nav, listing>>

\* Values of --browser (an empty value is falsy) and of settings.BROWSER.
BrowserOptions == {"", "chrome", "FIREFOX", "safari", "Safari"}
BrowserSettings == {"chrome", "edge"}

\* str.lower() on the names above.
Lower(name) ==
    CASE name = "FIREFOX" -> "firefox"
      [] name = "Safari"  -> "safari"
      [] OTHER            -> name

\* `browser_name or settings.BROWSER`
OrSetting(name, setting) == IF name = "" THEN setting ELSE name

\* `browser not in {"chrome", "firefox"}` negated.
SupportedAny(browser) == TRUE
Supported(browser) == browser \in {"chrome", "firefox"}

\* A WebDriver instance: how it was made, for which test, quit() calls so far.
Driver(kind) ==
    [kind |-> kind, browser |-> fx.browser, test |-> fx.tests, quits |-> 0]

\* pytest starts a test function that requests the fixture:
\* `browser = request.config.getoption("--browser")`, `get_driver(browser)`.
FixtureStart ==
    /\ fx.pc \in {"idle", "finished", "setup_error"}
    /\ fx.tests < MaxTests
    /\ \E o \in BrowserOptions, b \in BrowserSettings, h \in BOOLEAN,
          s \in BOOLEAN :
        fx' = [NoFixture EXCEPT !.pc = "get_driver", !.option = o,
                                !.setting = b, !.hub = h,
                                !.screenshot_on_failure = s, !.calls = 1,
                                !.tests = fx.tests + 1]
    /\ implicit_wait' = 0
    /\ UNCHANGED <<facadeVars, drivers>>

\* get_driver lines 44-53: normalise the name, reject an unsupported one,
\* choose the remote path when a hub URL is configured.
GetDriver ==
    /\ fx.pc = "get_driver"
    /\ LET browser == Lower(OrSetting(fx.option, fx.setting))
       IN  fx' = IF ~Supported(browser)
                 THEN [fx EXCEPT !.browser = browser, !.pc = "setup_error",
                                 !.error = "ValueError"]
                 ELSE [fx EXCEPT !.browser = browser,
                                 !.pc = IF fx.hub THEN "remote" ELSE "manager"]
    /\ UNCHANGED <<facadeVars, implicit_wait, drivers>>

\* A constructor that may fail (the browser or the hub cannot be reached):
\* on success the new instance exists and the code goes on at `next`.
Construct(kind, next, onFailure, err) ==
    \/ /\ drivers' = Append(drivers, Driver(kind))
       /\ fx' = [fx EXCEPT !.pc = next, !.created = @ + 1]
    \/ /\ fx' = [fx EXCEPT !.pc = onFailure, !.error = err]
       /\ UNCHANGED drivers

\* _get_remote_driver: webdriver.Remote(...) and `return driver`.
RemoteCreate ==
    /\ fx.pc = "remote"
    /\ Construct("remote", "yielded", "setup_error", WebDriverEx)
    /\ UNCHANGED <<facadeVars, implicit_wait>>

\* try: webdriver_manager installs the driver binary, webdriver.Chrome /
\* webdriver.Firefox; `except Exception` goes on to the system drivers.
ManagerCreate ==
    /\ fx.pc = "manager"
    /\ Construct("manager", "implicit", "system", "none")
    /\ UNCHANGED <<facadeVars, implicit_wait>>

\* except branch: webdriver.Chrome(options) / webdriver.Firefox(options);
\* a failure here leaves get_driver.
SystemCreate ==
    /\ fx.pc = "system"
    /\ Construct("system", "implicit", "setup_error", WebDriverEx)
    /\ UNCHANGED <<facadeVars, implicit_wait>>

\* `driver.implicitly_wait(settings.IMPLICIT_WAIT)` then `return driver`;
\* the command is sent to the new session and may fail like any other.
SetImplicitWait ==
    /\ fx.pc = "implicit"
    /\ \/ /\ implicit_wait' = IMPLICIT_WAIT
          /\ fx' = [fx EXCEPT !.pc = "yielded"]
       \/ /\ fx' = [fx EXCEPT !.pc = "setup_error", !.error = WebDriverEx]
          /\ UNCHANGED implicit_wait
    /\ UNCHANGED <<facadeVars, drivers>>

\* `yield driver_instance`: the rest of setup and the test body run, and
\* pytest_runtest_makereport stores rep_setup and rep_call on the item.
TestRuns ==
    /\ fx.pc = "yielded"
    /\ \E r \in {<<"failed", "none">>, <<"passed", "passed">>,
                 <<"passed", "failed">>} :
        fx' = [fx EXCEPT !.pc = "teardown", !.rep_setup = r[1],
                         !.rep_call = r[2]]
    /\ UNCHANGED <<facadeVars, implicit_wait, drivers>>

\* The loop over (rep_setup, rep_call) of lines 54-59.
AnyOutcomeFailed == TRUE
TestFailed == fx.rep_setup = "failed" \/ fx.rep_call = "failed"

\* `if test_failed and settings.SCREENSHOT_ON_FAILURE:`
Teardown ==
    /\ fx.pc = "teardown"
    /\ fx' = [fx EXCEPT !.pc = IF TestFailed /\ fx.screenshot_on_failure
                                THEN "screenshot" ELSE "quit"]
    /\ UNCHANGED <<facadeVars, implicit_wait, drivers>>

\* _capture_failure_screenshot: whatever fails inside is logged by its
\* `except Exception` and the function returns.
CaptureFailureScreenshot ==
    /\ fx.pc = "screenshot"
    /\ \E saved \in BOOLEAN :
        fx' = [fx EXCEPT !.pc = "quit", !.shots = IF saved THEN "saved" ELSE "failed"]
    /\ UNCHANGED <<facadeVars, implicit_wait, drivers>>

\* `driver_instance.quit()` on the instance get_driver returned (the last
\* one created); the call itself may report an error.
Quit ==
    /\ fx.pc = "quit"
    /\ drivers' = [drivers EXCEPT ![Len(drivers)].quits = @ + 1]
    /\ \E e \in {"none", WebDriverEx} :
        fx' = [fx EXCEPT !.pc = "finished", !.error = e]
    /\ UNCHANGED <<facadeVars, implicit_wait>>

NextSession ==
    \/ FixtureStart
    \/ GetDriver
    \/ RemoteCreate
    \/ ManagerCreate
    \/ SystemCreate
    \/ SetImplicitWait
    \/ TestRuns
    \/ Teardown
    \/ CaptureFailureScreenshot
    \/ Quit

SpecSession == Init /\ [][NextSession]_vars

\* ------------------------------------------------ two sessions at once
\* Two test sessions (threads or worker processes), each calling a function
\* decorated with retry; their steps interleave freely.
Sessions == {1, 2}

oneSessionVars == <<implicit_wait, fx, drivers, nav, listing, timeout, dom, op, pc, deco,
                    attempt, last_exception, history, log, slept, wait,
                    element, actions, opts, first_present, result>>

\* Failure kinds of the functions the two sessions call.
PairFailureKinds == {Stale, AssertionEx}

\* An exception object, with the session whose function raised it.
RaisedIn(s, kind, inv) == [exc |-> Exc(kind, inv), session |-> s]

\* `attempt` and `last_exception` are locals of wrapper(*args, **kwargs):
\* the call of session s has them in its own frame.
SharedSlot(s) == 1
Slot(s) == s

LocalAttempt(s) == frames[Slot(s)].attempt
LocalLastException(s) == frames[Slot(s)].last_exception

\* Frame table after the call of session s moved on to frame f and assigned
\* its two locals.
Step(s, f, a, e) ==
    [[frames EXCEPT ![s] = f] EXCEPT ![Slot(s)].attempt = a,
                                     ![Slot(s)].last_exception = e]

\* wrapper entered: `last_exception = None`, the loop starts at attempt 0.
PairCall ==
    \E s \in Sessions, n \in Budgets, x \in ExceptionSets :
        /\ frames[s].pc = "idle"
        /\ frames' = Step(s, [NoFrame EXCEPT !.pc = "loop", !.max_attempts = n,
                                              !.exceptions = x], 0, NoFailure)
        /\ UNCHANGED oneSessionVars

\* `for attempt in range(max_attempts + 1)`: the function is invoked.
PairInvoke ==
    \E s \in Sessions :
        /\ frames[s].pc = "loop"
        /\ LocalAttempt(s) \in AttemptRange(frames[s].max_attempts)
        /\ frames' = [frames EXCEPT ![s].pc = "body",
                                    ![s].invocations = @ + 1]
        /\ UNCHANGED oneSessionVars

\* Loop over: `raise last_exception`.
PairRaise ==
    \E s \in Sessions :
        /\ frames[s].pc = "loop"
        /\ LocalAttempt(s) \notin AttemptRange(frames[s].max_attempts)
        /\ frames' = [frames EXCEPT
                        ![s].pc = "done",
                        ![s].result =
                            Raised(IF LocalLastException(s) = NoFailure
                                   THEN RaisedIn(s, TypeErr, 0)
                                   ELSE LocalLastException(s))]
        /\ UNCHANGED oneSessionVars

\* The function of session s returns, or raises and the except clause
\* catches the exception or lets it pass.
PairRuns ==
    \E s \in Sessions :
        /\ frames[s].pc = "body"
        /\ \/ frames' = [frames EXCEPT ![s].pc = "done",
                                       ![s].last_outcome = "ok",
                                       ![s].result = Returned(frames[s].invocations)]
           \/ \E k \in PairFailureKinds :
                LET e == RaisedIn(s, k, frames[s].invocations)
                IN  IF Catches(e.exc, frames[s].exceptions)
                    THEN frames' = Step(s, [frames[s] EXCEPT
                                               !.pc = "loop",
                                               !.failures = @ + 1,
                                               !.last_outcome = k],
                                        LocalAttempt(s) + 1,
                                        Remember(LocalLastException(s), e))
                    ELSE frames' = [frames EXCEPT ![s].pc = "done",
                                                  ![s].last_outcome = k,
                                                  ![s].result = Raised(e)]
        /\ UNCHANGED oneSessionVars

\* The caller of session s has the outcome; the frame is gone.
PairReturn ==
    \E s \in Sessions :
        /\ frames[s].pc = "done"
        /\ frames' = [frames EXCEPT ![s] = NoFrame]
        /\ UNCHANGED oneSessionVars

NextPair ==
    \/ PairCall
    \/ PairInvoke
    \/ PairRaise
    \/ PairRuns
    \/ PairReturn

SpecPair == Init /\ [][NextPair]_vars

\* ------------------------------------------------ HomePage.go_to_careers
\* The steps of go_to_careers in program order.  Each facade call or driver
\* command it makes delivers one of the outcomes that call can deliver.
otherVars == <<implicit_wait, fx, drivers, frames, listing, timeout, dom, op, pc, deco,
               attempt, last_exception, history, log, slept, wait, element,
               actions, opts, first_present, result>>

\* self.find: the handle, or TimeoutException, an exhausted stale retry, or
\* another driver error.
FindOutcomes == {"ok", Timeout, Stale, WebDriverEx}
\* A driver command on a handle (move_to_element, is_displayed, click,
\* execute_script): done, or refused.
CommandOutcomes == {"ok", Stale, Intercepted, WebDriverEx}
\* driver.get(url)
GetOutcomes == {"ok", Timeout, WebDriverEx}

\* `except Exception:` of go_to_careers
HandlerCatchesTimeoutOnly(k) == Timeout \in Ancestors(k)
HandlerCatches(k) == AnyEx \in Ancestors(k)

\* Step `step` ended with outcome k: on success the method goes on at
\* `next`; a failure enters the except clause when it catches it and leaves
\* the method otherwise.
NavStep(step, k, next) ==
    nav' = [nav EXCEPT
              !.steps = Append(@, [outcome |-> k, step |-> step]),
              !.pc = IF k = "ok" THEN next
                     ELSE IF HandlerCatches(k) THEN "fallback" ELSE "done",
              !.result = IF k = "ok" \/ HandlerCatches(k)
                         THEN @ ELSE Raised(Exc(k, 0))]

GoToCareers ==
    /\ nav.pc = "idle"
    /\ nav' = [nav EXCEPT !.pc = "find_company"]
    /\ UNCHANGED otherVars

\* `company = self.find(*self.COMPANY_MENU)`
NavFindCompany ==
    /\ nav.pc = "find_company"
    /\ \E k \in FindOutcomes : NavStep("find_company", k, "hover")
    /\ UNCHANGED otherVars

\* `ActionChains(self.driver).move_to_element(company).perform()`, sleep(1)
NavHover ==
    /\ nav.pc = "hover"
    /\ \E k \in CommandOutcomes : NavStep("hover", k, "exists")
    /\ UNCHANGED otherVars

\* `if self.exists(*self.CAREERS_LINK, timeout=3):` answers True, answers
\* False (the else branch navigates directly) or raises a driver error.
NavExists ==
    /\ nav.pc = "exists"
    /\ \/ NavStep("exists", "ok", "find_careers")
       \/ nav' = [nav EXCEPT
                    !.steps = Append(@, [outcome |-> "absent", step |-> "exists"]),
                    !.pc = "direct"]
       \/ NavStep("exists", WebDriverEx, "find_careers")
    /\ UNCHANGED otherVars

\* `careers_element = self.find(*self.CAREERS_LINK)`
NavFindCareers ==
    /\ nav.pc = "find_careers"
    /\ \E k \in FindOutcomes : NavStep("find_careers", k, "displayed")
    /\ UNCHANGED otherVars

\* `if careers_element.is_displayed():`
NavIsDisplayed ==
    /\ nav.pc = "displayed"
    /\ \/ \E k \in CommandOutcomes \ {Intercepted} :
             NavStep("is_displayed", k, "click")
       \/ nav' = [nav EXCEPT
                    !.steps = Append(@, [outcome |-> "hidden", step |-> "is_displayed"]),
                    !.pc = "script"]
    /\ UNCHANGED otherVars

\* `careers_element.click()`; the link leads to the careers page.
NavClick ==
    /\ nav.pc = "click"
    /\ \E k \in CommandOutcomes :
        /\ NavStep("click", k, "return")
    /\ UNCHANGED otherVars

\* `self.driver.execute_script("arguments[0].click();", careers_element)`
NavScriptClick ==
    /\ nav.pc = "script"
    /\ \E k \in CommandOutcomes \ {Intercepted} :
        NavStep("script_click", k, "return")
    /\ UNCHANGED otherVars

\* else branch: `self.driver.get("https://useinsider.com/careers/")`, still
\* inside the try block.
NavDirect ==
    /\ nav.pc = "direct"
    /\ \E k \in GetOutcomes : NavStep("get", k, "return")
    /\ UNCHANGED otherVars

\* except clause: `self.driver.get("https://useinsider.com/careers/")`;
\* a failure here leaves the method.
NavFallback ==
    /\ nav.pc = "fallback"
    /\ \E k \in GetOutcomes :
        nav' = [nav EXCEPT
                  !.steps = Append(@, [outcome |-> k, step |-> "fallback_get"]),
                  !.pc = IF k = "ok" THEN "return" ELSE "done",
                  !.result = IF k = "ok" THEN @ ELSE Raised(Exc(k, 0))]
    /\ UNCHANGED otherVars

\* `return CareersPage(self.driver)`
NavReturn ==
    /\ nav.pc = "return"
    /\ nav' = [nav EXCEPT !.pc = "done", !.result = Returned("CareersPage")]
    /\ UNCHANGED otherVars

NextNav ==
    \/ GoToCareers
    \/ NavFindCompany
    \/ NavHover
    \/ NavExists
    \/ NavFindCareers
    \/ NavIsDisplayed
    \/ NavClick
    \/ NavScriptClick
    \/ NavDirect
    \/ NavFallback
    \/ NavReturn

SpecNav == Init /\ [][NextNav]_vars

\* ------------------------------------------------------- get_listings
\* OpenPositionsPage.get_listings (open_positions_page.py:36-57); the
\* variables of every other part of the program stay as they are.
listingOtherVars == <<implicit_wait, fx, drivers, frames, nav, timeout, dom, op,
                      pc, deco, attempt, last_exception, history, log, slept,
                      wait, element, actions, opts, first_present, result>>

\* The statements of the loop body, lines 42-45, in their order.
CardFields == <<"title", "department", "location", "button">>

\* card.find_element(...) and, for the first three, `.text` of what it found:
\* done, or no such element under the card, or the card or the element has
\* gone stale, or the command failed.
LookupOutcomes == {"ok", NoSuch, Stale, WebDriverEx}

\* `except Exception: continue`
CardHandlerCatchesNoSuchOnly(k) == NoSuch \in Ancestors(k)
CardHandlerCatches(k) == AnyEx \in Ancestors(k)

\* What the lookup of field f under card c evaluates to (a text, or the
\* handle of the button).
Value(c, f) == <<c, f>>

\* The dict of lines 47-53.
Entry(c, vals) ==
    [element |-> c, title |-> vals[1], department |-> vals[2],
     location |-> vals[3], button |-> vals[4]]

\* Handles of n cards in document order; the browser numbers them as it
\* likes.
CardLists(n) == {[i \in 1 .. n |-> i], [i \in 1 .. n |-> n + 1 - i]}

GetListings ==
    /\ listing.pc = "idle"
    /\ listing' = [listing EXCEPT !.pc = "finds"]
    /\ UNCHANGED listingOtherVars

\* `cards = self.finds(*self.LISTING_ITEM)`, `listings = []`: finds has no
\* handler, a failed find_elements command leaves get_listings.
ListingFinds ==
    /\ listing.pc = "finds"
    /\ \/ \E n \in 0 .. MaxCards : \E cs \in CardLists(n) :
            listing' = [listing EXCEPT !.pc = "loop", !.located = TRUE,
                                       !.cards = cs, !.card = 1]
       \/ listing' = [listing EXCEPT !.pc = "done",
                                     !.result = Raised(Exc(WebDriverEx, 0))]
    /\ UNCHANGED listingOtherVars

\* One statement of lines 42-45 for the current card.  The fourth success
\* appends the entry; a failure the handler catches goes on with the next
\* card, any other failure leaves the method.
ListingLookup ==
    /\ listing.pc = "loop"
    /\ listing.card <= Len(listing.cards)
    /\ LET c == listing.cards[listing.card]
           f == CardFields[Len(listing.fields) + 1]
           vals == Append(listing.fields, Value(c, f))
       IN  \E k \in LookupOutcomes :
             LET seen == Append(listing.lookups,
                                [card |-> c, outcome |-> k, field |-> f])
             IN  listing' =
                   IF k = "ok"
                   THEN IF Len(vals) = Len(CardFields)
                        THEN [listing EXCEPT
                                !.card = @ + 1, !.fields = <<>>,
                                !.listings = Append(@, Entry(c, vals)),
                                !.lookups = seen]
                        ELSE [listing EXCEPT !.fields = vals, !.lookups = seen]
                   ELSE IF CardHandlerCatches(k)
                        THEN [listing EXCEPT !.card = @ + 1, !.fields = <<>>,
                                             !.lookups = seen]
                        ELSE [listing EXCEPT !.pc = "done", !.lookups = seen,
                                             !.result = Raised(Exc(k, 0))]
    /\ UNCHANGED listingOtherVars

\* The loop is over: `return listings`.
ListingReturn ==
    /\ listing.pc = "loop"
    /\ listing.card > Len(listing.cards)
    /\ listing' = [listing EXCEPT !.pc = "done",
                                  !.result = Returned(listing.listings)]
    /\ UNCHANGED listingOtherVars

NextListing ==
    \/ GetListings
    \/ ListingFinds
    \/ ListingLookup
    \/ ListingReturn

SpecListing == Init /\ [][NextListing]_vars

\* ------------------------------------------------------------ progress
\* A step of the program itself: the interpreter always executes the next
\* statement of a running call, whatever the browser does meanwhile.
ProgramStep ==
    /\ pc \notin {"idle", "done"}
    /\ Next
    /\ dom' = dom

SpecLive == Spec /\ WF_vars(ProgramStep)

\* =================================================================
\* Properties
\* =================================================================
Done == pc = "done"
Budget == deco.max_attempts
Wrapped == deco.func # "none"

\* The claim's notion of "kind in the transient set" of a wrapper.
InTransientSet(k, X) ==
    \/ k \in X
    \/ AnyEx \in X
    \/ WebDriverEx \in X /\ k \in SeleniumKinds

FailedTransiently(i) ==
    /\ history[i].outcome # "ok"
    /\ InTransientSet(history[i].outcome, deco.exceptions)

FailedTerminally(i) ==
    /\ history[i].outcome # "ok"
    /\ ~InTransientSet(history[i].outcome, deco.exceptions)

RetryRecords == SelectSeq(log, LAMBDA r : r.src = "retry")

\* C1: with budget N >= 0, a call whose first N invocations fail with a
\* transient kind makes invocation N+1 (the wrapper never ends earlier), and
\* if that invocation succeeds the wrapper returns its result after exactly
\* N+1 invocations.
C1_SuccessOnLastAttempt ==
    (/\ Done
     /\ op = "op"
     /\ Budget >= 0
     /\ \A i \in 1 .. Budget : i <= Len(history) => FailedTransiently(i)
     /\ Len(history) >= Budget)
    => /\ Len(history) = Budget + 1
       /\ history[Budget + 1].outcome = "ok" => result = Returned(Budget + 1)

C1_Witness ==
    /\ Done
    /\ op = "op"
    /\ Budget >= 1
    /\ Len(history) = Budget + 1
    /\ \A i \in 1 .. Budget : FailedTransiently(i)
    /\ history[Budget + 1].outcome = "ok"
    /\ result = Returned(Budget + 1)

\* C2: with budget N >= 0 the wrapper never makes more than N+1
\* invocations, and a call in which every invocation failed with a
\* transient kind ends after exactly N+1 of them by raising the failure
\* object of invocation N+1.
C2_ExhaustionRaisesLast ==
    (op = "op" /\ Budget >= 0)
    => /\ Len(history) <= Budget + 1
       /\ (Done /\ \A i \in 1 .. Len(history) : FailedTransiently(i))
          => /\ Len(history) = Budget + 1
             /\ result = Raised(Exc(history[Budget + 1].outcome, Budget + 1))

C2_Witness ==
    /\ Done
    /\ op = "op"
    /\ Budget >= 1
    /\ Len(history) = Budget + 1
    /\ \A i \in 1 .. Len(history) : FailedTransiently(i)
    /\ result.status = "raised"
    /\ result.exc.inv = Budget + 1

\* C3: an invocation of a wrapped function that fails with a kind outside
\* the wrapper's transient set is the last one: the failure is delivered to
\* the caller at once, and the only delays and retry log records of the call
\* are those of the attempts before it.  The caller is the one of the
\* wrapped method itself; a page-object method with its own handler is
\* C23's subject.
C3_NonTransientPropagates ==
    (Wrapped /\ op \notin PageObjectOps) =>
        \A i \in 1 .. Len(history) :
            FailedTerminally(i)
            => /\ i = Len(history)
               /\ Done
               /\ result = Raised(Exc(history[i].outcome, i))
               /\ Len(slept) = i - 1
               /\ Len(RetryRecords) = i - 1

C3_Witness ==
    /\ Done
    /\ Wrapped
    /\ Len(history) = 2
    /\ Budget >= 2
    /\ FailedTransiently(1)
    /\ FailedTerminally(2)
    /\ result.status = "raised"

IsAct(i, cmd, k) ==
    /\ i \in 1 .. Len(actions)
    /\ actions[i].cmd = cmd
    /\ actions[i].outcome = k

\* C4: a native click that raises ElementClickInterceptedException is
\* followed, in the same attempt and on the same handle, by the script
\* click; when the script click succeeds click returns success at once
\* and the attempt has consumed nothing of the retry budget: the attempt
\* counter, the number of invocations and the number of delays are what
\* they were when the attempt began (0, 1 and 0 on the first attempt).
C4_FallbackSucceedsWithinAttempt ==
    op = "click" =>
        \A i \in 1 .. Len(actions) :
            IsAct(i, "click", Intercepted)
            => IF i = Len(actions)
               THEN /\ pc = "script"
                    /\ element = actions[i].handle
                    /\ attempt = actions[i].attempt
               ELSE /\ actions[i + 1].cmd = "script_click"
                    /\ actions[i + 1].handle = actions[i].handle
                    /\ actions[i + 1].attempt = actions[i].attempt
                    /\ actions[i + 1].outcome = "ok"
                       => /\ Done
                          /\ result = Returned(0)
                          /\ i + 1 = Len(actions)
                          /\ attempt = actions[i].attempt
                          /\ Len(history) = actions[i].attempt + 1
                          /\ Len(slept) = actions[i].attempt

C4_Witness ==
    /\ Done
    /\ op = "click"
    /\ Len(actions) = 2
    /\ IsAct(1, "click", Intercepted)
    /\ IsAct(2, "script_click", "ok")
    /\ result = Returned(0)
    /\ attempt = 0
    /\ Len(history) = 1
    /\ slept = <<>>

\* C5: when the native click raises ElementClickInterceptedException and
\* the script click fails too, whatever the kind of that failure, the
\* attempt consumes one unit of the retry budget, and click is executed
\* again if budget remained.
C5_FailedFallbackConsumesRetry ==
    op = "click" =>
        \A i \in 1 .. Len(actions) :
            (/\ IsAct(i, "click", Intercepted)
             /\ i < Len(actions)
             /\ actions[i + 1].outcome # "ok"
             /\ actions[i].attempt < Budget)
            => /\ attempt > actions[i].attempt
               /\ Len(slept) > actions[i].attempt
               /\ ~Done \/ Len(history) > actions[i].attempt + 1

\* C6: a StaleElementReferenceException of the native click is never
\* followed by the script click: the attempt ends, the wrapper counts it
\* and the next action, if any, belongs to a later attempt and is issued on
\* a newly located handle; three attempts of which the first two end stale
\* and the third clicks give success after exactly 3 invocations.  An
\* ElementClickInterceptedException of the native click is followed by the
\* script click on the same handle with no wait in between.
C6_RemediesDistinct ==
    op = "click" =>
        /\ \A i \in 1 .. Len(actions) :
            IsAct(i, "click", Stale)
            => /\ attempt > actions[i].attempt
               /\ Len(history) > actions[i].attempt
               /\ history[actions[i].attempt + 1].outcome = Stale
               /\ i < Len(actions)
                  => /\ actions[i + 1].cmd = "click"
                     /\ actions[i + 1].attempt > actions[i].attempt
                     /\ actions[i + 1].handle # actions[i].handle
        /\ \A i \in 1 .. Len(actions) :
            IsAct(i, "click", Intercepted)
            => \/ i = Len(actions) /\ pc = "script" /\ wait = NoWait
                  /\ element = actions[i].handle
               \/ /\ i < Len(actions)
                  /\ actions[i + 1].cmd = "script_click"
                  /\ actions[i + 1].handle = actions[i].handle
        /\ (/\ Len(actions) = 3
            /\ IsAct(1, "click", Stale) /\ actions[1].attempt = 0
            /\ IsAct(2, "click", Stale) /\ actions[2].attempt = 1
            /\ IsAct(3, "click", "ok") /\ actions[3].attempt = 2)
           => /\ Done
              /\ result = Returned(0)
              /\ Len(history) = 3

C6_Witness ==
    /\ Done
    /\ op = "click"
    /\ Budget = 3
    /\ Len(actions) = 3
    /\ IsAct(1, "click", Stale)
    /\ IsAct(2, "click", Stale)
    /\ IsAct(3, "click", "ok")
    /\ actions[3].handle = 3
    /\ result = Returned(0)
    /\ Len(history) = 3

\* C7: an attempt of click, type or find whose wait ends in
\* TimeoutException is the last invocation of the call: the
\* TimeoutException of that attempt is what the caller gets, whatever
\* budget remains.  The caller is the one of click, type or find itself.
C7_WaitTimeoutIsTerminal ==
    (deco.func \in {"click", "type", "find"} /\ op \notin PageObjectOps) =>
        \A i \in 1 .. Len(history) :
            history[i].outcome = Timeout
            => /\ i = Len(history)
               /\ Done
               /\ result = Raised(Exc(Timeout, i))

C7_Witness ==
    /\ Done
    /\ op = "type"
    /\ Len(history) = 1
    /\ history[1].outcome = Timeout
    /\ actions = <<>>
    /\ attempt = 0
    /\ Budget = 3
    /\ result = Raised(Exc(Timeout, 1))

\* Timeout T the caller of exists asked for (the default when none given).
RequestedTimeout == OverrideIfGiven(opts.timeout, timeout)

\* C8: exists never raises, for any T >= 0 and whatever the presence check
\* answers, and it returns true exactly when the node was present at some
\* time within T of the call.
C8_ExistsNeverRaises ==
    (Done /\ op = "exists")
    => /\ result.status = "ok"
       /\ result.value = TRUE <=> first_present \in 0 .. RequestedTimeout

\* C9: in get_text and get_attribute a StaleElementReferenceException of
\* the read does not reach the caller while retry budget remains.
C9_StaleReadIsRetried ==
    (/\ Done
     /\ op \in {"get_text", "get_attribute"}
     /\ result.status = "raised"
     /\ result.exc.kind = Stale)
    => attempt >= Budget

\* C10: when the locator matches no node (and the driver answers the
\* query), finds returns the empty sequence without having blocked.
C10_FindsDoesNotWait ==
    (/\ Done
     /\ op = "finds"
     /\ first_present = -1
     /\ result.exc.kind # WebDriverEx)
    => /\ result = Returned(<<>>)
       /\ wait.elapsed = 0

\* -------------------------------------------------------------- C11
\* The step in which a command of the running wait failed with a
\* WebDriverException (no predicate value was observed).
CommandFailed ==
    IF Wrapped
    THEN history' = Append(history, [inv |-> Inv, outcome |-> WebDriverEx])
    ELSE result' = Raised(Exc(WebDriverEx, Inv))

\* The step in which the wait handed handle h to the code that called it.
Handed(h) ==
    CASE op = "exists"   -> pc' = "done" /\ result' = Returned(TRUE)
      [] op \in WaitForOps \cup {"find"} -> pc' = "done" /\ result' = Returned(h)
      [] deco.func \in {"click", "type"} -> pc' = "native" /\ element' = h
      [] OTHER -> pc' = "act" /\ element' = h

\* C11: a wait returns the predicate's value in the very evaluation that
\* observes it satisfied (the handle, never a null value), and an evaluation
\* that answers 'not yet' before the timeout has elapsed is followed by
\* another poll: it neither fails the wait nor returns.
C11_FirstSuccessReturned ==
    [][/\ (pc = "wait" /\ wait.pred = "presence" /\ dom.present /\ pc' # pc)
          => (dom.node # 0 /\ (Handed(dom.node) \/ CommandFailed))
       /\ (pc = "check" /\ ~IsStale(element) /\ Satisfied(wait.pred) /\ pc' # pc)
          => (element # 0 /\ (Handed(element) \/ CommandFailed))
       /\ (pc = "wait" /\ ~dom.present /\ pc' # pc)
          => (pc' = "wait_sleep" /\ result' = result /\ history' = history)
             \/ CommandFailed
       /\ (pc = "wait_sleep" /\ wait.elapsed + 1 <= wait.timeout /\ pc' # pc)
          => /\ pc' \in {"wait", "ready"}
             /\ result' = result
             /\ history' = history
             /\ wait'.timeout = wait.timeout
             /\ wait'.elapsed = wait.elapsed + 1]_vars

\* find returned a node that was attached only after the wait had polled.
C11_Witness ==
    /\ Done
    /\ op = "find"
    /\ Len(history) = 1
    /\ first_present >= 1
    /\ first_present < timeout
    /\ result.status = "ok"
    /\ result.value # 0

\* -------------------------------------------------------------- C12
\* C12: a wait with timeout T whose locator never matched gives up with
\* TimeoutException no earlier than T and no later than one poll interval
\* after T, whatever implicit wait the session has.
C12_TimeoutWithinOnePoll ==
    [][(/\ pc = "wait_sleep"
        /\ first_present = -1
        /\ pc' \notin {"wait_sleep", "wait", "ready"})
       => wait.elapsed + 1 \in wait.timeout .. (wait.timeout + 1)]_vars

\* -------------------------------------------------------------- C13
\* Readiness predicate the specification documents for each operation.
DocumentedPredicate(o) ==
    IF o = "click" THEN "clickable"
    ELSE IF o = "type" THEN "visible"
    ELSE IF o \in {"find", "get_text", "get_attribute", "hover",
                   "scroll_to_element"} THEN "presence"
    ELSE "undocumented"

ActingOps == {"click", "type", "get_text", "get_attribute", "hover",
              "scroll_to_element"}

\* The running wait is the documented one and has just seen its predicate
\* satisfied on node h.
DocumentedWaitSatisfied(h) ==
    /\ pc \in {"wait", "check"}
    /\ wait.pred = DocumentedPredicate(op)
    /\ Satisfied(wait.pred)
    /\ h = dom.node

\* C13: every facade operation waits on its documented predicate and sends
\* a driver action only to the handle that predicate was satisfied on, in
\* the same attempt (click: clickable; type: visible; find, get_text,
\* get_attribute, hover, scroll_to_element: attached).
C13_ActsAfterDocumentedWait ==
    [][(op \in ActingOps \cup {"find"} /\ ~Done) =>
       /\ (pc' \in {"native", "act"} /\ pc' # pc)
          => (DocumentedWaitSatisfied(element') /\ attempt' = attempt)
       /\ (op = "find" /\ pc' = "done" /\ result'.status = "ok")
          => DocumentedWaitSatisfied(result'.value)
       /\ (pc \in {"native", "script", "send", "act"} /\ pc' \in {"script", "send"})
          => (element' = element /\ attempt' = attempt)
       /\ (actions' # actions)
          => /\ pc \in {"native", "script", "send", "act"}
             /\ actions' = Append(actions, actions'[Len(actions')])
             /\ actions'[Len(actions')].handle = element
             /\ actions'[Len(actions')].attempt = attempt
             /\ element # 0]_vars

\* A click reached the node in a later attempt, after that attempt's wait.
C13_Witness ==
    /\ Done
    /\ op = "click"
    /\ result.status = "ok"
    /\ Len(actions) = 2
    /\ actions[1].attempt = 0
    /\ actions[1].outcome = Stale
    /\ actions[2].attempt = 1
    /\ actions[2].outcome = "ok"
    /\ actions[2].handle # actions[1].handle

\* -------------------------------------------------------------- C14
\* C14: in every state of the page the readiness predicates are ordered:
\* clickable implies visible, and visible implies attached.
C14_PredicatesOrdered ==
    /\ Satisfied("clickable") => Satisfied("visible")
    /\ Satisfied("visible") => Satisfied("presence")

\* A click is about to act on the node its wait found clickable: the node
\* is visible and attached as well.
C14_Witness ==
    /\ pc = "native"
    /\ op = "click"
    /\ element = dom.node
    /\ Satisfied("clickable")
    /\ Satisfied("visible")
    /\ Satisfied("presence")

\* -------------------------------------------------------------- C15
\* C15: every retry runs the operation from scratch.  Between attempts no
\* handle and no wait is kept; the attempt starts a new wait with the full
\* timeout; all driver actions of one attempt go to one handle; and a type
\* with clear_first clears the field again, on the same handle and in the
\* same attempt, before each send_keys.
C15_RetryReexecutesFromScratch ==
    [][(Wrapped /\ deco.func # "op" /\ ~Done) =>
       /\ pc = "loop" => (element = 0 /\ wait = NoWait)
       /\ (pc = "loop" /\ pc' # pc /\ pc' # "done")
          => /\ pc' = "wait"
             /\ wait' = StartWait(DocumentedPredicate(deco.func), timeout)
             /\ element' = 0
       /\ \A i, j \in 1 .. Len(actions) :
             actions[i].attempt = actions[j].attempt
             => actions[i].handle = actions[j].handle
       /\ \A i \in 1 .. Len(actions) :
             (op = "type" /\ opts.clear_first /\ actions[i].cmd = "send_keys")
             => /\ i > 1
                /\ actions[i - 1].cmd = "clear"
                /\ actions[i - 1].outcome = "ok"
                /\ actions[i - 1].attempt = actions[i].attempt
                /\ actions[i - 1].handle = actions[i].handle]_vars

\* A type with clear_first whose first send_keys hit a stale handle: the
\* retry cleared and sent again on the new handle.
C15_Witness ==
    /\ Done
    /\ op = "type"
    /\ opts.clear_first
    /\ result.status = "ok"
    /\ Len(actions) = 4
    /\ actions[2].cmd = "send_keys"
    /\ actions[2].outcome = Stale
    /\ actions[3].cmd = "clear"
    /\ actions[3].attempt = 1
    /\ actions[4].cmd = "send_keys"
    /\ actions[4].outcome = "ok"
    /\ actions[4].handle # actions[2].handle

\* -------------------------------------------------------------- C16
RetryWarnings == SelectSeq(RetryRecords, LAMBDA r : r.level = "warning")
RetryErrors == SelectSeq(RetryRecords, LAMBDA r : r.level = "error")

\* Invocations that failed transiently with budget left: the ones the
\* wrapper answers with a re-execution.
FailuresRetried ==
    {i \in 1 .. Len(history) : FailedTransiently(i) /\ i <= Budget}

\* All Budget + 1 invocations failed transiently.
Exhausted ==
    /\ Len(history) = Budget + 1
    /\ FailedTransiently(Budget + 1)

\* C16: every failed attempt that is followed by a re-execution leaves
\* exactly one warning record carrying the attempt number and the failure;
\* the number of such records equals the number of re-executions; and
\* exhausting the budget leaves one more record, at error level.
C16_OneRecordPerRetry ==
    (Wrapped /\ Budget >= 0) =>
       /\ Len(RetryWarnings) = Cardinality(FailuresRetried)
       /\ \A j \in 1 .. Len(RetryWarnings) :
             /\ j \in FailuresRetried
             /\ RetryWarnings[j].attempt = j
             /\ RetryWarnings[j].exc = Exc(history[j].outcome, j)
       /\ (Done /\ Len(history) >= 1)
          => Len(RetryWarnings) = Len(history) - 1
       /\ Len(RetryErrors) = IF Exhausted THEN 1 ELSE 0
       /\ Exhausted
          => /\ RetryRecords[Len(RetryRecords)].level = "error"
             /\ RetryRecords[Len(RetryRecords)].attempt = Budget + 1

\* Budget 2, three transient failures: two warnings, then the error record.
C16_Witness ==
    /\ Done
    /\ Wrapped
    /\ Budget = 2
    /\ Exhausted
    /\ Len(RetryWarnings) = 2
    /\ Len(RetryErrors) = 1
    /\ result.status = "raised"

\* -------------------------------------------------------------- C17
\* C17: the configured delay is slept exactly once after each transient
\* failure that a further invocation follows, and at no other time: not
\* before the first invocation, not after a success, a non-transient
\* failure or the final failed attempt.  A call that made k invocations
\* slept k - 1 delays.
C17_OneDelayBetweenInvocations ==
    [][(Wrapped /\ Budget >= 0 /\ ~Done) =>
       /\ history = <<>> => slept = <<>>
       /\ \A i \in 1 .. Len(slept) : slept[i] = deco.delay
       /\ Len(slept) = Cardinality(FailuresRetried)
       /\ (slept' # slept)
          => /\ slept' = Append(slept, deco.delay)
             /\ Len(history') = Len(history) + 1
             /\ history'[Len(history')].outcome # "ok"
             /\ InTransientSet(history'[Len(history')].outcome, deco.exceptions)
             /\ Len(history') <= Budget
             /\ pc' = "loop"
       /\ (pc' = "done" /\ Len(history') >= 1)
          => Len(slept') = Len(history') - 1]_vars

\* Three invocations (two transient failures, then a success), two delays.
C17_Witness ==
    /\ Done
    /\ Wrapped
    /\ result.status = "ok"
    /\ Len(history) = 3
    /\ slept = <<deco.delay, deco.delay>>
    /\ deco.delay = RETRY_DELAY

\* -------------------------------------------------------------- C18
\* C18: a failure delivered to the caller names what was waited for and the
\* limit that was exceeded: a wait timeout names the predicate and the
\* timeout used, a failure after the retries are exhausted names the
\* attempt budget.
C18_TerminalFailureCarriesContext ==
    (Done /\ result.status = "raised") =>
       /\ result.exc.kind = Timeout
          => {"predicate", "timeout"} \subseteq result.exc.context
       /\ (Wrapped /\ Budget >= 0 /\ Exhausted)
          => "budget" \in result.exc.context

\* -------------------------------------------------------------- C19
\* The fixture has nothing more to do for the current test.
TestOver == fx.pc \in {"finished", "setup_error"}

\* C19: when a test is over, whatever its outcome, every driver created
\* for it has had quit() called exactly once; none is left without a quit.
C19_EveryDriverReleasedOnce ==
    /\ \A i \in 1 .. Len(drivers) : drivers[i].quits <= 1
    /\ TestOver => \A i \in 1 .. Len(drivers) : drivers[i].quits = 1

\* -------------------------------------------------------------- C20
\* Names that denote chrome or firefox in whatever letter case.
RecognizedNames == {"chrome", "firefox", "FIREFOX"}

\* The browser the current test asked for is not a recognized one.
UnrecognizedRequested ==
    /\ fx.pc # "idle"
    /\ (IF fx.option = "" THEN fx.setting ELSE fx.option) \notin RecognizedNames

\* C20: a request for an unrecognized browser fails at once with ValueError:
\* get_driver, called once, creates no driver, local or remote, and tries no
\* fallback, with or without a hub URL.
C20_UnsupportedBrowserFailsFast ==
    UnrecognizedRequested =>
       /\ fx.pc \in {"get_driver", "setup_error"}
       /\ fx.pc = "setup_error" => fx.error = "ValueError"
       /\ fx.created = 0
       /\ fx.calls = 1
       /\ \A i \in 1 .. Len(drivers) : drivers[i].test # fx.tests

\* safari requested while a hub URL is configured: ValueError, no driver.
C20_Witness ==
    /\ fx.pc = "setup_error"
    /\ fx.option = "Safari"
    /\ fx.hub
    /\ fx.error = "ValueError"
    /\ fx.created = 0

\* -------------------------------------------------------------- C21
\* Transient kinds the specification gives for each wrapped facade method.
DocumentedTransient(func) ==
    IF func = "click" THEN {Stale, Intercepted}
    ELSE IF func \in {"type", "find"} THEN {Stale}
    ELSE {}

\* C21: a wrapper built without a transient set retries a failure of any
\* kind until the budget is used up; click, type and find retry exactly the
\* kinds of their own set, a failure of another kind ends the call at once.
C21_DefaultRetriesEverything ==
    /\ (Done /\ deco.func = "op" /\ deco.exceptions = DefaultExceptions
        /\ Budget >= 0 /\ result.status = "raised")
       => /\ Len(history) = Budget + 1
          /\ \A i \in 1 .. Len(history) : history[i].outcome # "ok"
    /\ (deco.func \in {"click", "type", "find"} /\ op \notin PageObjectOps)
       => \A i \in 1 .. Len(history) :
             /\ (history[i].outcome \notin {"ok"} \cup DocumentedTransient(deco.func))
                => /\ i = Len(history)
                   /\ Done
                   /\ result.status = "raised"
                   /\ result.exc.kind = history[i].outcome
             /\ (history[i].outcome \in DocumentedTransient(deco.func)
                 /\ i <= Budget /\ Done)
                => i < Len(history)

\* A default wrapper with budget 2 retried an AssertionError, a timeout and
\* an interception, none of them a stale reference.
C21_Witness ==
    /\ Done
    /\ deco.func = "op"
    /\ deco.exceptions = {AnyEx}
    /\ Budget = 2
    /\ Len(history) = 3
    /\ history[1].outcome = AssertionEx
    /\ history[2].outcome = Timeout
    /\ history[3].outcome = Intercepted
    /\ result.status = "raised"

\* -------------------------------------------------------------- C22
\* Action i failed and the failure was not dropped: it was answered by
\* click's script fallback in the same attempt, or it is the recorded
\* failure of the invocation it belongs to.
FailureAccountedFor(i) ==
    \/ /\ actions[i].cmd = "click"
       /\ actions[i].outcome = Intercepted
       /\ i < Len(actions)
       /\ actions[i + 1].cmd = "script_click"
       /\ actions[i + 1].attempt = actions[i].attempt
    \/ /\ Wrapped
       /\ actions[i].attempt + 1 <= Len(history)
       /\ history[actions[i].attempt + 1].outcome = actions[i].outcome

\* C22: apart from exists, an operation that returned normally did not
\* drop a failure: its last invocation and its last driver action
\* succeeded, and every failed action before was either handed to click's
\* fallback or counted as the failure of an attempt that was retried.
C22_NoSilentSwallow ==
    (Done /\ op \notin {"exists"} \cup PageObjectOps /\ result.status = "ok") =>
       /\ Wrapped => (history # <<>> /\ history[Len(history)].outcome = "ok")
       /\ actions # <<>> => actions[Len(actions)].outcome = "ok"
       /\ \A i \in 1 .. Len(actions) :
             actions[i].outcome # "ok" => FailureAccountedFor(i)

\* click: intercepted, the fallback hit a stale handle, the retry clicked.
C22_Witness ==
    /\ Done
    /\ op = "click"
    /\ result.status = "ok"
    /\ Len(actions) = 3
    /\ actions[1].outcome = Intercepted
    /\ actions[2].cmd = "script_click"
    /\ actions[2].outcome = Stale
    /\ actions[3].cmd = "click"
    /\ actions[3].outcome = "ok"
    /\ Len(history) = 2

\* -------------------------------------------------------------- C23
\* C23: accept_cookies_if_present returns normally when the banner is
\* absent (the click's wait timed out), and a failure of any other kind
\* raised while clicking the banner reaches the caller.
C23_SwallowsOnlyAbsence ==
    (Done /\ op = "accept_cookies_if_present" /\ history # <<>>) =>
       /\ history[Len(history)].outcome = Timeout => result = Returned(0)
       /\ (/\ actions # <<>>
           /\ actions[Len(actions)].outcome = history[Len(history)].outcome
           /\ history[Len(history)].outcome \notin {"ok", Timeout})
          => /\ result.status = "raised"
             /\ result.exc.kind = history[Len(history)].outcome

\* -------------------------------------------------------------- C24
\* C24: hover and scroll_to_element issue their driver action once.  When
\* it fails, also with a stale reference and with retry budget left, the
\* failure goes to the caller: the node is not located again and the action
\* is not repeated.
C24_HoverScrollNotRetried ==
    (op \in {"hover", "scroll_to_element"}) =>
       /\ Len(actions) <= 1
       /\ (actions # <<>> /\ actions[1].outcome # "ok")
          => /\ Done
             /\ result.status = "raised"
             /\ result.exc.kind = actions[1].outcome
             /\ wait = NoWait
             /\ history # <<>>
             /\ history[Len(history)].outcome = "ok"
             /\ actions[1].attempt = Len(history) - 1

\* The hover move hit a stale handle on the first attempt; the caller got
\* the StaleElementReferenceException with all retries unused.
C24_Witness ==
    /\ Done
    /\ op = "hover"
    /\ Len(actions) = 1
    /\ actions[1].outcome = Stale
    /\ attempt = 0
    /\ Budget = 3
    /\ result.status = "raised"
    /\ result.exc.kind = Stale

\* -------------------------------------------------------------- C25
\* C25: with wrapped calls of two sessions interleaved, each call counts
\* its own failures only and raises a failure of its own: the attempt
\* counter equals the failures its own function raised and it caught, a
\* transient failure ends the call only after max_attempts + 1 invocations
\* of its own, and the failure raised is the last one of its own function.
C25_SessionsIndependent ==
    \A s \in Sessions :
        LET f == frames[s]
        IN  f.pc # "idle" =>
            /\ f.attempt = f.failures
            /\ f.invocations <= f.max_attempts + 1
            /\ (f.pc = "done" /\ f.result.status = "ok")
               => f.result.value = f.failures + 1
            /\ (f.pc = "done" /\ f.result.status = "raised" /\ f.max_attempts >= 0)
               => /\ f.result.exc = RaisedIn(s, f.last_outcome, f.invocations)
                  /\ InTransientSet(f.last_outcome, f.exceptions)
                     => f.invocations = f.max_attempts + 1

\* Session 1 used up a budget of 1; session 2, with the same budget, failed
\* once and then succeeded.
C25_Witness ==
    /\ frames[1].pc = "done"
    /\ frames[1].max_attempts = 1
    /\ frames[1].invocations = 2
    /\ frames[1].result.status = "raised"
    /\ frames[2].pc = "done"
    /\ frames[2].max_attempts = 1
    /\ frames[2].failures = 1
    /\ frames[2].result = Returned(2)

\* -------------------------------------------------------------- C26
\* A wrapped call never makes more than max_attempts + 1 invocations nor
\* sleeps more than max_attempts delays (none of either when the budget is
\* negative).
WithinBudget ==
    Wrapped =>
       /\ Len(history) <= (IF Budget >= 0 THEN Budget + 1 ELSE 0)
       /\ Len(slept) <= (IF Budget >= 0 THEN Budget ELSE 0)

\* C26: every call of a retry-wrapped operation ends, in a returned value
\* or a raised failure, after at most max_attempts + 1 invocations and at
\* most max_attempts delays.
C26_WrappedCallTerminates ==
    /\ [] WithinBudget
    /\ (Wrapped /\ pc = "loop" /\ attempt = 0)
          ~> (Done /\ result.status \in {"ok", "raised"})

\* A call that used its whole budget of 2 and ended with the failure.
C26_Witness ==
    /\ Done
    /\ Wrapped
    /\ Budget = 2
    /\ Len(history) = 3
    /\ Len(slept) = 2
    /\ result.status = "raised"
    /\ history[3].outcome = Timeout

\* -------------------------------------------------------------- C27
\* C27: every wait the facade starts runs with a timeout > 0, whatever
\* timeout T >= 0 was given to the constructor or to the call (the
\* configured default being positive).
C27_EffectiveTimeoutPositive ==
    /\ timeout > 0
    /\ wait.pred # "none" => wait.timeout > 0
    /\ (wait.pred # "none" /\ opts.timeout > 0) => wait.timeout = opts.timeout

\* exists was called with timeout 0 and waits with the default timeout.
C27_Witness ==
    /\ op = "exists"
    /\ pc = "wait_sleep"
    /\ opts.timeout = 0
    /\ wait.timeout = timeout
    /\ wait.timeout > 0
    /\ wait.elapsed = 0

\* -------------------------------------------------------------- C28
\* C28: in the fixture teardown a failure screenshot is taken only when
\* setup or call failed and SCREENSHOT_ON_FAILURE is on; it is taken while
\* the driver has not been quit; and whether capturing succeeds or fails,
\* teardown goes on to driver.quit() with no error raised by the capture.
C28_ScreenshotBeforeQuit ==
    [][/\ fx.shots # "none"
          => /\ fx.rep_setup = "failed" \/ fx.rep_call = "failed"
             /\ fx.screenshot_on_failure
       /\ fx.pc = "screenshot"
          => /\ drivers # <<>>
             /\ drivers[Len(drivers)].quits = 0
             /\ fx'.pc = "quit"
             /\ fx'.error = "none"
             /\ fx'.shots \in {"saved", "failed"}
       /\ (fx.pc \in {"quit", "finished"} /\ fx.screenshot_on_failure
           /\ (fx.rep_setup = "failed" \/ fx.rep_call = "failed"))
          => fx.shots # "none"
       /\ fx.pc = "finished" => drivers[Len(drivers)].quits = 1]_vars

\* Setup failed, the screenshot could not be taken, the driver was quit.
C28_Witness ==
    /\ fx.pc = "finished"
    /\ fx.rep_setup = "failed"
    /\ fx.screenshot_on_failure
    /\ fx.shots = "failed"
    /\ drivers[Len(drivers)].quits = 1

\* -------------------------------------------------------------- C29
\* Step i of go_to_careers is a driver.get of the careers URL.
IsDirectNavigation(i) == nav.steps[i].step \in {"get", "fallback_get"}

\* C29: when the Careers link is reported absent, or a step of the menu
\* navigation fails, the next thing go_to_careers does is send the driver
\* to the careers URL; and the call raises only when its last direct
\* navigation failed, returning a CareersPage in every other case.
C29_FallsBackToDirectNavigation ==
    nav.pc = "done" =>
       /\ \A i \in 1 .. Len(nav.steps) :
             (\/ nav.steps[i].outcome = "absent"
              \/ /\ ~IsDirectNavigation(i)
                 /\ nav.steps[i].outcome \notin {"ok", "hidden"})
             => (i < Len(nav.steps) /\ IsDirectNavigation(i + 1))
       /\ nav.result.status = "raised"
          => /\ nav.steps # <<>>
             /\ IsDirectNavigation(Len(nav.steps))
             /\ nav.steps[Len(nav.steps)].outcome # "ok"
             /\ nav.result.exc.kind = nav.steps[Len(nav.steps)].outcome
       /\ nav.result.status # "raised" => nav.result = Returned("CareersPage")

\* The link was absent, the direct navigation of the else branch timed out,
\* the one of the except clause worked: a CareersPage is returned.
C29_Witness ==
    /\ nav.pc = "done"
    /\ Len(nav.steps) = 5
    /\ nav.steps[3].outcome = "absent"
    /\ nav.steps[4].step = "get"
    /\ nav.steps[4].outcome = Timeout
    /\ nav.steps[5].step = "fallback_get"
    /\ nav.steps[5].outcome = "ok"
    /\ nav.result = Returned("CareersPage")

\* -------------------------------------------------------------- C30
TempWaitOps == WaitForOps \cup {"exists", "wait_for_page_load"}

\* C30: a timeout passed to exists, wait_for_element_visible,
\* wait_for_element_clickable or wait_for_page_load is used by that call
\* only.  The page object's timeout never changes; a call without override
\* waits with it, and so does every later wait of a wrapped operation.
C30_OverrideIsPerCall ==
    [][/\ timeout' = timeout
       /\ (op' \in TempWaitOps /\ op = "idle")
          => wait'.timeout = IF opts'.timeout > 0 THEN opts'.timeout ELSE timeout
       /\ (pc = "loop" /\ pc' = "wait") => wait'.timeout = timeout]_vars

\* wait_for_page_load ran out of an overridden timeout shorter than the
\* page object's, which is still in force.
C30_Witness ==
    /\ Done
    /\ op = "wait_for_page_load"
    /\ opts.timeout = 1
    /\ timeout = EXPLICIT_WAIT
    /\ timeout # opts.timeout
    /\ result.status = "raised"
    /\ result.exc.kind = Timeout

\* -------------------------------------------------------------- C31
\* The failure in `result` was raised by an invocation of the wrapped
\* function during this call.
ProducedByOperation ==
    /\ result.status = "raised"
    /\ result.exc.inv \in 1 .. Len(history)
    /\ history[result.exc.inv].outcome = result.exc.kind

\* C31: whatever integer max_attempts the wrapper was given, a finished call
\* of the wrapped function has invoked it at least once, and what the caller
\* gets is the value an invocation returned or a failure an invocation
\* raised.
C31_InvokedAtLeastOnce ==
    (Done /\ Wrapped /\ op = deco.func)
    => /\ Len(history) >= 1
       /\ \/ /\ result.status = "ok"
             /\ history[Len(history)].outcome = "ok"
          \/ ProducedByOperation

\* -------------------------------------------------------------- C32
\* C32: when the first invocation of the wrapped function succeeds, the
\* wrapper adds nothing of its own: that invocation is the only one, no delay
\* is slept, no warning or error record of the wrapper is written, and the
\* caller of the wrapped function gets the value the invocation returned.
C32_TransparentOnFirstSuccess ==
    (/\ Wrapped
     /\ Len(history) >= 1
     /\ history[1].outcome = "ok")
    => /\ Len(history) = 1
       /\ slept = <<>>
       /\ RetryRecords = <<>>
       /\ last_exception = None
       /\ op = deco.func
          => /\ Done
             /\ result.status = "ok"
             /\ op = "op" => result = Returned(1)
             /\ op = "find" => result.value >= 1

\* The directly decorated function returned on its first invocation with
\* budget left.
C32_Witness ==
    /\ Done
    /\ op = "op"
    /\ Budget >= 1
    /\ history = <<[inv |-> 1, outcome |-> "ok"]>>
    /\ result = Returned(1)
    /\ slept = <<>>
    /\ log = <<>>

\* -------------------------------------------------------------- C33
\* get_driver has returned a driver to the fixture, which yielded it.
DriverReturned == fx.pc \in {"yielded", "teardown", "screenshot", "quit"}

\* C33: a driver that get_driver returned has settings.IMPLICIT_WAIT applied,
\* whichever path created it (driver manager, system driver, Selenium hub).
C33_ImplicitWaitOnEveryPath ==
    DriverReturned
    => /\ drivers # <<>>
       /\ drivers[Len(drivers)].test = fx.tests
       /\ implicit_wait = IMPLICIT_WAIT

\* -------------------------------------------------------------- C34
\* Every statement of the loop body succeeded for card c.
AllLookupsSucceeded(c) ==
    \A f \in {CardFields[j] : j \in 1 .. Len(CardFields)} :
        \E i \in 1 .. Len(listing.lookups) :
            listing.lookups[i] = [card |-> c, outcome |-> "ok", field |-> f]

\* The located cards none of whose lookups failed, in the order located.
CompleteCards == SelectSeq(listing.cards, AllLookupsSucceeded)

\* C34: once the cards are located, get_listings does not fail whatever the
\* lookups under a card do: it returns one entry for every card whose title,
\* department, location and button lookups all succeeded, none for a card
\* with a failed lookup, in the order of the cards, so never more entries
\* than cards.
C34_FailedCardsAreSkipped ==
    /\ Len(listing.listings) <= Len(listing.cards)
    /\ (listing.pc = "done" /\ listing.located)
       => /\ listing.result.status = "ok"
          /\ Len(listing.result.value) = Len(CompleteCards)
          /\ Len(listing.result.value) <= Len(listing.cards)
          /\ \A i \in 1 .. Len(CompleteCards) :
                LET c == CompleteCards[i] IN
                listing.result.value[i]
                    = Entry(c, [j \in 1 .. Len(CardFields) |->
                                    Value(c, CardFields[j])])

\* Two cards: the first one's location lookup hits a stale element, the
\* second is complete and is the only entry returned.
C34_Witness ==
    /\ listing.pc = "done"
    /\ Len(listing.cards) = 2
    /\ \E i \in 1 .. Len(listing.lookups) :
          listing.lookups[i] = [card |-> listing.cards[1],
                                field |-> "location", outcome |-> Stale]
    /\ listing.result.status = "ok"
    /\ Len(listing.result.value) = 1
    /\ listing.result.value[1].element = listing.cards[2]
====
